---- MODULE Spec2Model ----
(***************************************************************************)
(* Benchmark catalog, fuzzy name lookup, balance ranking and price-window  *)
(* selection of sam/src/BalancePrice_tool.py.                              *)
(*                                                                         *)
(* Python values are modelled as follows.                                  *)
(*   str            a sequence of one-character strings                    *)
(*                  (the characters are those of Latin-1, U+0000 to U+00FF) *)
(*   None / number  the tagged records None, Num(n), and Str(s) for a       *)
(*                  string where None or a number can stand too            *)
(*   dict           an ordered sequence of [key, value] items (insertion   *)
(*                  order, as Python dicts keep it)                        *)
(*   rank / price   the fraction in lowest terms, so that equal floats are *)
(*                  equal values                                           *)
(* Prices are integers, None or a string; booleans and NaN are left out.   *)
(* Messages stand for the fixed head of the f-string the source returns.   *)
(* A part name that is missing (None) and one that is "" take the same     *)
(* branch at every use in the source ("or ''", "not part_name"), so both   *)
(* are the empty sequence here.                                            *)
(*                                                                         *)
(* The variables: fs the data directories, db the module's one             *)
(* BenchmarkDatabase, ret the last call and what it returned, reads the    *)
(* files that call opened, calls the load_benchmarks calls running side by *)
(* side (none where the operations run one after the other).               *)
(***************************************************************************)
EXTENDS Integers, Sequences, FiniteSets, TLC

VARIABLES fs, db, ret, reads, calls

vars == <<fs, db, ret, reads, calls>>

-----------------------------------------------------------------------------
(* Bounds of the model *)

MaxParts == 2

MaxPrices == 2

MaxLimit == 2

MaxFrags == 3

-----------------------------------------------------------------------------
(* Python values *)

None == [t |-> "none"]

Num(n) == [t |-> "num", v |-> n]

\* isinstance(x, (int, float))
IsNumber(x) == x.t = "num"

\* dict.get(key, default) on a JSON object
Get(obj, key, default) == IF key \in DOMAIN obj THEN obj[key] ELSE default

-----------------------------------------------------------------------------
(* Strings *)

\* the upper-case letters of Latin-1 and, at the same places, what str.lower() makes of them
UpperChars == <<"A","B","C","D","E","F","G","H","I","J","K","L","M",
                "N","O","P","Q","R","S","T","U","V","W","X","Y","Z",
                "À","Á","Â","Ã","Ä","Å","Æ","Ç","È","É","Ê","Ë","Ì","Í","Î",
                "Ï","Ð","Ñ","Ò","Ó","Ô","Õ","Ö","Ø","Ù","Ú","Û","Ü","Ý","Þ">>

LowerChars == <<"a","b","c","d","e","f","g","h","i","j","k","l","m",
                "n","o","p","q","r","s","t","u","v","w","x","y","z",
                "à","á","â","ã","ä","å","æ","ç","è","é","ê","ë","ì","í","î",
                "ï","ð","ñ","ò","ó","ô","õ","ö","ø","ù","ú","û","ü","ý","þ">>

DigitChars == <<"0","1","2","3","4","5","6","7","8","9">>

Range(s) == {s[i] : i \in DOMAIN s}

\* str.split(), str.strip() and \s: the whitespace of Latin-1, which is the blank, tab,
\* line feed, carriage return, form feed, vertical tab, U+001C to U+001F, U+0085 and
\* the no-break space
IsSpace(c) == c \in {" ", "\t", "\n", "\r", "\f", "", "", "", "", "",
                     "", " "}

WordChars ==
    Range(UpperChars) \cup Range(LowerChars) \cup Range(DigitChars)
    \cup {"_", "ª", "²", "³", "µ", "¹", "º", "¼", "½", "¾", "ß", "ÿ"}

\* \w of the regular expression on a str: letters, digits (those beyond ASCII too)
\* and the underscore
IsWord(c) == c \in WordChars

LowerOf == [i \in DOMAIN UpperChars |-> <<UpperChars[i], LowerChars[i]>>]

LowerPairs == Range(LowerOf)

UpperSet == Range(UpperChars)

LowerChar(c) ==
    IF c \in UpperSet THEN (CHOOSE p \in LowerPairs : p[1] = c)[2] ELSE c

\* str.lower()
Lower(s) == [i \in DOMAIN s |-> LowerChar(s[i])]

RECURSIVE SplitFrom(_, _, _)
SplitFrom(s, cur, acc) ==
    IF s = <<>>
    THEN IF cur = <<>> THEN acc ELSE Append(acc, cur)
    ELSE IF IsSpace(Head(s))
         THEN SplitFrom(Tail(s), <<>>, IF cur = <<>> THEN acc ELSE Append(acc, cur))
         ELSE SplitFrom(Tail(s), Append(cur, Head(s)), acc)

\* str.split(): the maximal runs of non-whitespace
Split(s) == SplitFrom(s, <<>>, <<>>)

RECURSIVE JoinSpace(_)
\* " ".join(tokens)
JoinSpace(tokens) ==
    IF tokens = <<>> THEN <<>>
    ELSE IF Len(tokens) = 1 THEN tokens[1]
    ELSE tokens[1] \o <<" ">> \o JoinSpace(Tail(tokens))

RECURSIVE Replace(_, _, _)
\* str.replace(old, new) for a non-empty old: leftmost, non-overlapping
Replace(s, old, new) ==
    IF Len(s) < Len(old) THEN s
    ELSE IF SubSeq(s, 1, Len(old)) = old
         THEN new \o Replace(SubSeq(s, Len(old) + 1, Len(s)), old, new)
         ELSE <<Head(s)>> \o Replace(Tail(s), old, new)

\* str.strip()
RECURSIVE LStrip(_)
LStrip(s) == IF s # <<>> /\ IsSpace(Head(s)) THEN LStrip(Tail(s)) ELSE s

RECURSIVE RStrip(_)
RStrip(s) == IF s # <<>> /\ IsSpace(s[Len(s)]) THEN RStrip(SubSeq(s, 1, Len(s) - 1)) ELSE s

Strip(s) == RStrip(LStrip(s))

\* "needle in haystack" on strings
Contains(haystack, needle) ==
    \E i \in 0..(Len(haystack) - Len(needle)) :
        SubSeq(haystack, i + 1, i + Len(needle)) = needle

\* re.sub(r"[^\w\s]", " ", name)
SubPunct(s) == [i \in DOMAIN s |-> IF IsWord(s[i]) \/ IsSpace(s[i]) THEN s[i] ELSE " "]

BrandAmd == <<"a","m","d"," ">>

BrandIntel == <<"i","n","t","e","l"," ">>

BrandGeforce == <<"g","e","f","o","r","c","e"," ">>

BrandRadeon == <<"r","a","d","e","o","n"," ">>

\* A slip of _normalize_name: the brand prefixes are never stripped.
normalize_name_keep_brand(name) == JoinSpace(Split(SubPunct(Lower(JoinSpace(Split(name))))))

_normalize_name(name) ==
    LET n1 == Lower(JoinSpace(Split(name)))
        n2 == Replace(Replace(n1, BrandAmd, <<>>), BrandIntel, <<>>)
        n3 == Replace(Replace(n2, BrandGeforce, <<>>), BrandRadeon, <<>>)
        n4 == SubPunct(n3)
    IN  JoinSpace(Split(n4))

_compact_name(name) == SelectSeq(_normalize_name(name), LAMBDA c : c # " ")

\* all(token in candidate_tokens ...) or all(token in query_tokens ...)
_tokens_match(query, candidate) ==
    LET query_tokens == Split(query)
        candidate_tokens == Split(candidate)
    IN  IF query_tokens = <<>> \/ candidate_tokens = <<>> THEN FALSE
        ELSE \/ Range(query_tokens) \subseteq Range(candidate_tokens)
             \/ Range(candidate_tokens) \subseteq Range(query_tokens)

-----------------------------------------------------------------------------
(* Ordered dictionaries: a sequence of [key, value] items with distinct keys *)

HasKey(d, k) == \E i \in DOMAIN d : d[i].key = k

\* d.get(k, default)
DictGet(d, k, default) ==
    IF HasKey(d, k) THEN d[CHOOSE i \in DOMAIN d : d[i].key = k].value ELSE default

\* d[k] = v: an existing key keeps its place
DictSet(d, k, v) ==
    IF HasKey(d, k)
    THEN [i \in DOMAIN d |-> IF d[i].key = k THEN [key |-> k, value |-> v] ELSE d[i]]
    ELSE Append(d, [key |-> k, value |-> v])

Keys(d) == [i \in DOMAIN d |-> d[i].key]

-----------------------------------------------------------------------------
(* The data files.  Every directory that holds a file holds the same       *)
(* content for it; a file is "ok", "bad" (malformed JSON or an I/O error   *)
(* on reading) or "missing".                                               *)

S_Ryzen7 == <<"R","y","z","e","n"," ","7">>

S_AmdRyzen7 == <<"A","M","D"," ","R","y","z","e","n"," ","7">>

S_CoreI5 == <<"C","o","r","e"," ","i","5">>

S_Athlon == <<"A","t","h","l","o","n">>

S_AthlonPadded == <<" ","A","t","h","l","o","n"," ">>

S_Xeon == <<"X","e","o","n">>

S_Rtx3 == <<"R","T","X"," ","3">>

S_GeforceGtx2 == <<"G","e","F","o","r","c","e"," ","G","T","X"," ","2">>

S_Blank == <<" ">>

Cpu1Json ==
    [benchmark_title |-> "Gaming",
     cpus |-> <<
        [name |-> S_Ryzen7, rating |-> Num(90), relative_performance_percent |-> Num(100),
         rank |-> Num(1)],
        [name |-> S_CoreI5, rating |-> Num(70), relative_performance_percent |-> Num(80),
         rank |-> Num(2), outdated |-> TRUE],
        [name |-> S_AmdRyzen7, rating |-> Num(60), relative_performance_percent |-> Num(70),
         rank |-> Num(3)],
        [name |-> S_AthlonPadded, rating |-> Num(50)],
        [name |-> S_Blank, rating |-> Num(40), rank |-> Num(4)],
        [rating |-> Num(30), rank |-> Num(5)] >>]

Cpu2Json ==
    [benchmark_name |-> "Software",
     processors |-> <<
        [name |-> S_Ryzen7, rating |-> Num(80), percentage |-> Num(90), rank |-> Num(2)],
        [name |-> S_CoreI5, rating |-> Num(95), percentage |-> Num(100), rank |-> Num(1)],
        [name |-> S_Xeon, percentage |-> Num(60), rank |-> Num(3)],
        [name |-> S_Athlon, rating |-> Num(10), percentage |-> Num(5), rank |-> Num(0)] >>]

GpuJson ==
    [GPU_Benchmark_Rankings |-> <<
        [name |-> S_Rtx3, benchmark_score |-> Num(200), relative_performance |-> Num(100),
         rank |-> Num(1)],
        [name |-> S_GeforceGtx2, benchmark_score |-> Num(100), relative_performance |-> Num(50),
         rank |-> Num(2), status |-> "legacy"] >>]

-----------------------------------------------------------------------------
(* The file system: directory -> state of each of the three data files *)

DirHint == "/opt/bench"

DirPkg == "<pkg>/sam/BalancePrice"

DirCwdSam == "<cwd>/sam/BalancePrice"

DirCwd == "<cwd>/BalancePrice"

DirDeep == "<cwd>/a/b/data"

DirFar == "<cwd>/a/b/c/data"

DirPkgDeep == "<pkg>/x/data"

Dirs == {DirHint, DirPkg, DirCwdSam, DirCwd, DirDeep, DirFar, DirPkgDeep}

RootCwd == "<cwd>"

RootPkg == "<pkg>"

\* the search root a directory lies under, "" for none
DirRoot(d) ==
    IF d \in {DirCwdSam, DirCwd, DirDeep, DirFar} THEN RootCwd
    ELSE IF d \in {DirPkg, DirPkgDeep} THEN RootPkg
    ELSE ""

\* len(rel.parts) of d/cpu1.json relative to its root
DirParts(d) ==
    IF d = DirCwd THEN 2
    ELSE IF d \in {DirCwdSam, DirPkg, DirPkgDeep} THEN 3
    ELSE IF d = DirDeep THEN 4
    ELSE 5

NoFiles == [cpu1 |-> "missing", cpu2 |-> "missing", gpu |-> "missing"]

Files(a, b, c) == [cpu1 |-> a, cpu2 |-> b, gpu |-> c]

EmptyFs == [d \in Dirs |-> NoFiles]

OneDir(d, files) == [EmptyFs EXCEPT ![d] = files]

Layouts ==
    { EmptyFs,
      OneDir(DirHint, Files("ok", "ok", "ok")),
      OneDir(DirHint, Files("ok", "bad", "ok")),
      OneDir(DirHint, Files("bad", "ok", "ok")),
      OneDir(DirHint, Files("ok", "ok", "bad")),
      OneDir(DirPkg, Files("ok", "ok", "ok")),
      OneDir(DirCwdSam, Files("missing", "ok", "missing")),
      OneDir(DirCwd, Files("missing", "missing", "ok")),
      OneDir(DirDeep, Files("ok", "missing", "missing")),
      OneDir(DirDeep, Files("missing", "ok", "ok")),
      OneDir(DirFar, Files("ok", "ok", "ok")),
      OneDir(DirPkgDeep, Files("ok", "ok", "ok")),
      [OneDir(DirHint, Files("missing", "missing", "ok")) EXCEPT ![DirPkg] = Files("ok", "ok", "ok")] }

\* The layouts the tools are exercised on: every file present, one file unreadable (the
\* load raises half way), only the GPU file, in the default directory, and no file at
\* all (no directory is found).
DataLayouts ==
    { EmptyFs,
      OneDir(DirHint, Files("ok", "ok", "ok")),
      OneDir(DirHint, Files("ok", "bad", "ok")),
      OneDir(DirCwdSam, Files("missing", "missing", "ok")) }

\* the hints a caller passes: a configured directory, or the default "./sam/BalancePrice"
Hints == {DirHint, DirCwdSam}

-----------------------------------------------------------------------------
(* BenchmarkDatabase *)

NoDir == "None"

NoTitle == ""

max_depth == 4

NewDb ==
    [cpu_gaming |-> <<>>, cpu_software |-> <<>>, gpu |-> <<>>,
     cpu_gaming_title |-> NoTitle, cpu_software_title |-> NoTitle, gpu_title |-> NoTitle,
     cpu_gaming_index |-> <<>>, cpu_software_index |-> <<>>, gpu_index |-> <<>>,
     cpu_gaming_compact_index |-> <<>>, cpu_software_compact_index |-> <<>>,
     gpu_compact_index |-> <<>>,
     last_benchmark_dir |-> NoDir, last_benchmark_paths |-> <<>>,
     _loaded |-> FALSE]

_has_any_benchmarks(f, candidate) ==
    /\ candidate \in Dirs
    /\ \E name \in {"cpu1", "cpu2", "gpu"} : f[candidate][name] # "missing"

\* The directories root.rglob("cpu1.json") can make _find_benchmark_dir return:
\* the order of the walk is the file system's, so any match within the depth
\* bound may come first.  The empty set stands for None.
_find_benchmark_dir(f, root) ==
    {d \in Dirs : /\ DirRoot(d) = root
                  /\ f[d].cpu1 # "missing"
                  /\ DirParts(d) <= max_depth
                  /\ _has_any_benchmarks(f, d)}

\* The possible outcomes [dir, paths] of _resolve_benchmark_dir.
_resolve_benchmark_dir(f, benchmarks_dir) ==
    LET candidates == <<benchmarks_dir, DirPkg, DirCwdSam, DirCwd>>
        hits == {i \in DOMAIN candidates : _has_any_benchmarks(f, candidates[i])}
        first == CHOOSE i \in hits : \A j \in hits : i <= j
        in_cwd == _find_benchmark_dir(f, RootCwd)
        in_pkg == _find_benchmark_dir(f, RootPkg)
    IN  IF hits # {} THEN {[dir |-> candidates[first], paths |-> candidates]}
        ELSE IF in_cwd # {} THEN {[dir |-> d, paths |-> Append(candidates, d)] : d \in in_cwd}
        ELSE IF in_pkg # {} THEN {[dir |-> d, paths |-> Append(candidates, d)] : d \in in_pkg}
        ELSE {[dir |-> NoDir, paths |-> candidates]}

RECURSIVE PutAll(_, _)
\* for item in items: d[item.key] = item.value
PutAll(d, items) ==
    IF items = <<>> THEN d
    ELSE PutAll(DictSet(d, Head(items).key, Head(items).value), Tail(items))

CpuGamingRecord(cpu) ==
    [rating |-> Get(cpu, "rating", None),
     relative_performance |-> Get(cpu, "relative_performance_percent", None),
     rank |-> Get(cpu, "rank", None),
     outdated |-> Get(cpu, "outdated", FALSE)]

CpuSoftwareRecord(cpu) ==
    [rating |-> Get(cpu, "rating", None),
     percentage |-> Get(cpu, "percentage", None),
     rank |-> Get(cpu, "rank", None),
     outdated |-> Get(cpu, "outdated", FALSE)]

GpuRecord(gpu) ==
    [benchmark_score |-> Get(gpu, "benchmark_score", None),
     relative_performance |-> Get(gpu, "relative_performance", None),
     rank |-> Get(gpu, "rank", None),
     status |-> Get(gpu, "status", "current")]

\* the record load_benchmarks stores for an entry of the file of this kind
Record(kind, entry) ==
    CASE kind = "cpu_gaming" -> CpuGamingRecord(entry)
      [] kind = "cpu_software" -> CpuSoftwareRecord(entry)
      [] kind = "gpu" -> GpuRecord(entry)

\* for e in entries: name = (e.get("name") or "").strip(); if name: catalog[name] = record
LoadEntries(catalog, entries, kind) ==
    PutAll(catalog,
           SelectSeq([i \in DOMAIN entries |->
                         [key |-> Strip(Get(entries[i], "name", <<>>)),
                          value |-> Record(kind, entries[i])]],
                     LAMBDA item : item.key # <<>>))

\* {self._normalize_name(name): name for name in names}, or with self._compact_name:
\* a later name replaces an earlier one
BuildIndex(names, compact) ==
    PutAll(<<>>, [i \in DOMAIN names |->
                    [key |-> IF compact THEN _compact_name(names[i])
                             ELSE _normalize_name(names[i]),
                     value |-> names[i]]])

_build_indexes(d) ==
    [d EXCEPT
       !.cpu_gaming_index = BuildIndex(Keys(d.cpu_gaming), FALSE),
       !.cpu_software_index = BuildIndex(Keys(d.cpu_software), FALSE),
       !.gpu_index = BuildIndex(Keys(d.gpu), FALSE),
       !.cpu_gaming_compact_index = BuildIndex(Keys(d.cpu_gaming), TRUE),
       !.cpu_software_compact_index = BuildIndex(Keys(d.cpu_software), TRUE),
       !.gpu_compact_index = BuildIndex(Keys(d.gpu), TRUE)]

\* One "if path.exists(): ... json.load ... for ..." block of load_benchmarks, on the
\* running outcome s = [db, raised, reads].
LoadFile(s, state, loaded_db) ==
    IF s.raised \/ state = "missing" THEN s
    ELSE IF state = "bad" THEN [s EXCEPT !.raised = TRUE, !.reads = @ + 1]
    ELSE [s EXCEPT !.db = loaded_db, !.reads = @ + 1]

\* load_benchmarks past its "if self._loaded: return" guard, for one outcome r of the
\* directory search.
LoadFrom(d, f, r) ==
    LET d0 == [d EXCEPT !.last_benchmark_paths = r.paths, !.last_benchmark_dir = r.dir]
        s0 == [db |-> d0, raised |-> FALSE, reads |-> 0]
        s1 == LoadFile(s0, f[r.dir].cpu1,
                  [s0.db EXCEPT !.cpu_gaming_title = Get(Cpu1Json, "benchmark_title", NoTitle),
                                !.cpu_gaming = LoadEntries(@, Get(Cpu1Json, "cpus", <<>>),
                                                           "cpu_gaming")])
        s2 == LoadFile(s1, f[r.dir].cpu2,
                  [s1.db EXCEPT !.cpu_software_title = Get(Cpu2Json, "benchmark_name", NoTitle),
                                !.cpu_software = LoadEntries(@, Get(Cpu2Json, "processors", <<>>),
                                                             "cpu_software")])
        s3 == LoadFile(s2, f[r.dir].gpu,
                  [s2.db EXCEPT !.gpu_title =
                                    IF Get(GpuJson, "benchmark_title", NoTitle) # NoTitle
                                    THEN Get(GpuJson, "benchmark_title", NoTitle)
                                    ELSE "GPU Benchmark Rankings",
                                !.gpu = LoadEntries(@, Get(GpuJson, "GPU_Benchmark_Rankings", <<>>),
                                                    "gpu")])
    IN  IF r.dir = NoDir THEN [s0 EXCEPT !.db._loaded = TRUE]
        ELSE IF s3.raised THEN s3
        ELSE [s3 EXCEPT !.db = _build_indexes([s3.db EXCEPT !._loaded = TRUE])]

\* A slip of load_benchmarks: the loaded guard is missing, every call loads again.
load_benchmarks_again(d, f, benchmarks_dir) ==
    {LoadFrom(d, f, r) : r \in _resolve_benchmark_dir(f, benchmarks_dir)}

\* The possible outcomes [db, raised, reads] of load_benchmarks(benchmarks_dir):
\* the database after the call, whether the call raised, and the files it opened.
load_benchmarks(d, f, benchmarks_dir) ==
    IF d._loaded THEN {[db |-> d, raised |-> FALSE, reads |-> 0]}
    ELSE {LoadFrom(d, f, r) : r \in _resolve_benchmark_dir(f, benchmarks_dir)}

-----------------------------------------------------------------------------
(* Name lookup *)

\* A slip of the scan: the token match only, the compact substring is not tried.
ScanTokensOnly(catalog, normalized_query, compact_query) ==
    {i \in DOMAIN catalog : _tokens_match(normalized_query, _normalize_name(catalog[i].key))}

\* The records the "for name, data in catalog.items()" scan would return at: those
\* matching by tokens or by compact substring.  The scan returns at the first.
Scan(catalog, normalized_query, compact_query) ==
    {i \in DOMAIN catalog :
        \/ _tokens_match(normalized_query, _normalize_name(catalog[i].key))
        \/ /\ compact_query # <<>>
           /\ Contains(_compact_name(catalog[i].key), compact_query)}

Min(S) == CHOOSE i \in S : \A j \in S : i <= j

\* A slip of the scan: the last matching record is returned and not the first.
LookupQueryLast(catalog, index, compact_index, normalized_query, compact_query, hits) ==
    IF HasKey(index, normalized_query)
    THEN DictGet(catalog, DictGet(index, normalized_query, <<>>), None)
    ELSE IF HasKey(compact_index, compact_query)
    THEN DictGet(catalog, DictGet(compact_index, compact_query, <<>>), None)
    ELSE IF hits # {} THEN catalog[CHOOSE i \in hits : \A j \in hits : j <= i].value
    ELSE None

\* The index values are catalog names, never empty, so "if exact_name:" is "the key
\* is in the index".
LookupQuery(catalog, index, compact_index, normalized_query, compact_query, hits) ==
    IF HasKey(index, normalized_query)
    THEN DictGet(catalog, DictGet(index, normalized_query, <<>>), None)
    ELSE IF HasKey(compact_index, compact_query)
    THEN DictGet(catalog, DictGet(compact_index, compact_query, <<>>), None)
    ELSE IF hits # {} THEN catalog[Min(hits)].value
    ELSE None

LookupNormalized(catalog, index, compact_index, normalized_query, compact_query) ==
    LookupQuery(catalog, index, compact_index, normalized_query, compact_query,
                Scan(catalog, normalized_query, compact_query))

\* The body shared by lookup_cpu_gaming, lookup_cpu_software and lookup_gpu, which
\* differ in the catalog and the two indexes they read.
lookup(catalog, index, compact_index, name) ==
    LookupNormalized(catalog, index, compact_index, _normalize_name(name), _compact_name(name))

lookup_cpu_gaming(d, cpu_name) ==
    lookup(d.cpu_gaming, d.cpu_gaming_index, d.cpu_gaming_compact_index, cpu_name)

lookup_cpu_software(d, cpu_name) ==
    lookup(d.cpu_software, d.cpu_software_index, d.cpu_software_compact_index, cpu_name)

lookup_gpu(d, gpu_name) ==
    lookup(d.gpu, d.gpu_index, d.gpu_compact_index, gpu_name)

-----------------------------------------------------------------------------
(* The tools.  Each yields the set of its possible outcomes                *)
(* [db, reads, result]: the database after the call, the files the call    *)
(* opened and the dictionary it returns.                                   *)

S_cpu == <<"c","p","u">>

S_gpu == <<"g","p","u">>

S_gaming == <<"g","a","m","i","n","g">>

S_software == <<"s","o","f","t","w","a","r","e">>

CpuKeywords ==
    { <<"r","y","z","e","n">>, <<"c","o","r","e"," ","i">>, <<"x","e","o","n">>,
      <<"t","h","r","e","a","d","r","i","p","p","e","r">>, <<"a","t","h","l","o","n">> }

GpuKeywords ==
    { <<"r","t","x">>, <<"g","t","x">>, <<"r","a","d","e","o","n">>,
      <<"g","e","f","o","r","c","e">>, <<"a","r","c">>, <<"t","i">>, <<"r","x">> }

Str(s) == [t |-> "str", v |-> s]

NoError == ""

\* x or default, for a title
OrTitle(x, default) == IF x # NoTitle THEN x ELSE default

Error(message) == [status |-> "error", message |-> message]

\* "if not _benchmark_db._loaded: try: load_benchmarks(...) except: return error"
EnsureLoaded(d, f, benchmarks_dir) ==
    IF d._loaded THEN {[db |-> d, raised |-> FALSE, reads |-> 0]}
    ELSE load_benchmarks(d, f, benchmarks_dir)

\* A slip of the detection: the GPU keywords are tried before the CPU keywords.
DetectCategoryGpuFirst(part_lower, category) ==
    IF category # <<>> THEN category
    ELSE IF \E keyword \in GpuKeywords : Contains(part_lower, keyword) THEN S_gpu
    ELSE S_cpu

\* "if not category:" with the keyword tests on part.lower() (lines 255-262)
DetectCategory(part_lower, category) ==
    IF category # <<>> THEN category
    ELSE IF \E keyword \in CpuKeywords : Contains(part_lower, keyword) THEN S_cpu
    ELSE IF \E keyword \in GpuKeywords : Contains(part_lower, keyword) THEN S_gpu
    ELSE S_cpu

\* the lookup the category and the benchmark type select (lines 264-274)
FindBenchmark(d, part, category_lower, is_software) ==
    IF category_lower = S_cpu
    THEN IF is_software THEN lookup_cpu_software(d, part) ELSE lookup_cpu_gaming(d, part)
    ELSE lookup_gpu(d, part)

\* what lookup_benchmark returns for the record found (lines 278-315)
BenchmarkResult(d, category, is_software, benchmark_data) ==
    LET bench_type_name ==
            IF Lower(category) = S_cpu /\ is_software THEN S_software ELSE S_gaming
        score ==
            IF category = S_cpu THEN Get(benchmark_data, "rating", None)
            ELSE Get(benchmark_data, "benchmark_score", None)
        relative_score ==
            IF category = S_cpu
            THEN IF is_software THEN Get(benchmark_data, "percentage", None)
                 ELSE Get(benchmark_data, "relative_performance", None)
            ELSE Get(benchmark_data, "relative_performance", None)
        benchmark_title ==
            IF category = S_cpu
            THEN IF is_software THEN OrTitle(d.cpu_software_title, "Processor Software Benchmark")
                 ELSE OrTitle(d.cpu_gaming_title, "Processor Gaming Benchmark")
            ELSE OrTitle(d.gpu_title, "GPU Benchmark Rankings")
        rank == IF IsNumber(Get(benchmark_data, "rank", None))
                THEN Get(benchmark_data, "rank", None) ELSE None
    IN  IF benchmark_data = None
        THEN Error("No benchmark found")
        ELSE IF score = None
        THEN Error("Benchmark found but no score")
        ELSE [status |-> "success", score |-> score, relative_score |-> relative_score,
              benchmark_title |-> benchmark_title, benchmark_rank |-> rank,
              category |-> category, benchmark_type |-> bench_type_name,
              details |-> benchmark_data]

LookupCategory(d, part, category, is_software) ==
    IF d.cpu_gaming = <<>> /\ d.cpu_software = <<>> /\ d.gpu = <<>>
    THEN [status |-> "error", message |-> "Benchmark files are empty or not loaded",
          tried |-> d.last_benchmark_paths]
    ELSE IF Lower(category) \notin {S_cpu, S_gpu}
    THEN Error("Unknown category")
    ELSE BenchmarkResult(d, category, is_software,
                         FindBenchmark(d, part, Lower(category), is_software))

\* lookup_benchmark once the database is loaded (lines 251-315)
LookupLoaded(d, part, category, benchmark_type) ==
    LookupCategory(d, part, DetectCategory(Lower(part), category),
                   Lower(benchmark_type) = S_software)

lookup_benchmark(d, f, part, category, benchmark_type, benchmarks_dir) ==
    { [db |-> l.db, reads |-> l.reads,
       result |-> IF l.raised THEN Error("Failed to load benchmarks")
                  ELSE LookupLoaded(l.db, part, category, benchmark_type)] :
      l \in EnsureLoaded(d, f, benchmarks_dir) }

-----------------------------------------------------------------------------
(* Sorting: sorted(..., key=..., reverse=True) and list.sort(key=..., reverse=True) *)
(* on items [key, value] whose keys are the fractions [num, den], den > 0.          *)

KeyLess(a, b) == a.num * b.den < b.num * a.den

RECURSIVE InsertBeforeEqual(_, _)
InsertBeforeEqual(sorted, x) ==
    IF sorted = <<>> THEN <<x>>
    ELSE IF ~KeyLess(x.key, Head(sorted).key) THEN <<x>> \o sorted
    ELSE <<Head(sorted)>> \o InsertBeforeEqual(Tail(sorted), x)

RECURSIVE InsertDescending(_, _)
\* x goes behind every item whose key is not smaller: equal keys keep their order
InsertDescending(sorted, x) ==
    IF sorted = <<>> THEN <<x>>
    ELSE IF KeyLess(Head(sorted).key, x.key) THEN <<x>> \o sorted
    ELSE <<Head(sorted)>> \o InsertDescending(Tail(sorted), x)

\* A slip of the sort: descending, but equal keys come out in reverse input order.
SortedDescendingUnstable(items) ==
    LET s[i \in 0..Len(items)] == IF i = 0 THEN <<>> ELSE InsertBeforeEqual(s[i - 1], items[i])
    IN  s[Len(items)]

\* the stable sort with reverse=True
SortedDescending(items) ==
    LET s[i \in 0..Len(items)] == IF i = 0 THEN <<>> ELSE InsertDescending(s[i - 1], items[i])
    IN  s[Len(items)]

Values(items) == [i \in DOMAIN items |-> items[i].value]

\* A slip of the sort: the ranked records come out best rank (lowest number) first.
RankedAscending(source_data) ==
    LET ranked == SelectSeq(source_data, LAMBDA item : IsNumber(Get(item.value, "rank", None)))
        descending == Values(SortedDescending([i \in DOMAIN ranked |->
                [key |-> [num |-> ranked[i].value.rank.v, den |-> 1], value |-> ranked[i]]]))
    IN  [i \in DOMAIN descending |-> descending[Len(descending) + 1 - i]]

\* [(name, data) for name, data in source_data.items() if isinstance(data.get("rank"), int)]
\* sorted by rank, reverse=True
RankedDescending(source_data) ==
    LET ranked == SelectSeq(source_data, LAMBDA item : IsNumber(Get(item.value, "rank", None)))
    IN  Values(SortedDescending([i \in DOMAIN ranked |->
                [key |-> [num |-> ranked[i].value.rank.v, den |-> 1], value |-> ranked[i]]]))

-----------------------------------------------------------------------------
(* compute_balance *)

RECURSIVE Gcd(_, _)
Gcd(a, b) == IF b = 0 THEN a ELSE Gcd(b, a % b)

\* rank / price, a float: the fraction in lowest terms, so that equal quotients are equal
Quotient(n, d) == [t |-> "num", num |-> n \div Gcd(n, d), den |-> d \div Gcd(n, d)]

\* bool(x) for None and numbers
Truthy(x) == x # None /\ ~(IsNumber(x) /\ x.v = 0)

RECURSIVE Flatten(_)
Flatten(seqs) == IF seqs = <<>> THEN <<>> ELSE Head(seqs) \o Flatten(Tail(seqs))

\* One pass of the "for entry in parts" loop: what it appends to results, given what
\* lookup_benchmark returns for the part.
EntryResult(part_name, price, benchmark_type, bench_result, rank_ok) ==
    IF part_name = <<>> THEN <<>>
    ELSE IF ~IsNumber(price) \/ price.v <= 0
    THEN << [part |-> part_name, price |-> price, benchmark |-> None,
             relative_performance |-> None, balance_score |-> None,
             category |-> None, error |-> "Invalid price"] >>
    ELSE IF bench_result.status # "success"
    THEN << [part |-> part_name, price |-> price, benchmark |-> None,
             relative_performance |-> None, balance_score |-> None,
             category |-> None, error |-> bench_result.message] >>
    ELSE << [part |-> part_name, price |-> price,
             benchmark |->
                 IF bench_result.score = None \/ bench_result.score.v <= 0 THEN None
                 ELSE bench_result.score,
             relative_performance |->
                 IF Truthy(bench_result.relative_score) THEN bench_result.relative_score
                 ELSE None,
             balance_score |->
                 IF rank_ok THEN Quotient(bench_result.benchmark_rank.v, price.v) ELSE None,
             category |-> Str(bench_result.category),
             benchmark_type |-> benchmark_type,
             benchmark_title |-> bench_result.benchmark_title,
             benchmark_rank |-> bench_result.benchmark_rank,
             error |-> IF rank_ok THEN NoError ELSE "Invalid benchmark rank"] >>

\* "not isinstance(benchmark_rank, int) or benchmark_rank <= 0", negated
RankOk(bench_result) ==
    /\ bench_result.status = "success"
    /\ IsNumber(bench_result.benchmark_rank)
    /\ bench_result.benchmark_rank.v > 0

EntryLookedUp(entry, benchmark_type, bench_result) ==
    EntryResult(entry.part, entry.price, benchmark_type, bench_result, RankOk(bench_result))

EvaluateEntry(d, entry, benchmark_type) ==
    EntryLookedUp(entry, benchmark_type, LookupLoaded(d, entry.part, <<>>, benchmark_type))

\* r["rank"] = i
WithRank(r, i) == [k \in DOMAIN r \cup {"rank"} |-> IF k = "rank" THEN i ELSE r[k]]

ByBalance(scored) == [i \in DOMAIN scored |-> [key |-> scored[i].balance_score, value |-> scored[i]]]

Ranked(sorted) == [i \in DOMAIN sorted |-> WithRank(sorted[i], i)]

\* the split, the sort and the ranks of lines 405-420
BalanceResult(valid_results, invalid_results, benchmark_type) ==
    [status |-> "success", valid_count |-> Len(valid_results),
     invalid_count |-> Len(invalid_results), benchmark_type |-> benchmark_type,
     evaluated |-> valid_results \o invalid_results]

BalanceOf(results, benchmark_type) ==
    BalanceResult(
        Ranked(Values(SortedDescending(
                   ByBalance(SelectSeq(results, LAMBDA r : r.balance_score # None))))),
        SelectSeq(results, LAMBDA r : r.balance_score = None),
        benchmark_type)

\* compute_balance once the database is loaded (lines 336-420)
BalanceLoaded(d, parts, benchmark_type) ==
    BalanceOf(Flatten([i \in DOMAIN parts |-> EvaluateEntry(d, parts[i], benchmark_type)]),
              benchmark_type)

\* A slip of compute_balance: the empty list is not refused.
compute_balance_unguarded(d, f, parts, benchmark_type, benchmarks_dir) ==
    { [db |-> l.db, reads |-> l.reads,
       result |-> IF l.raised THEN Error("Failed to load benchmarks")
                  ELSE BalanceLoaded(l.db, parts, benchmark_type)] :
      l \in EnsureLoaded(d, f, benchmarks_dir) }

compute_balance(d, f, parts, benchmark_type, benchmarks_dir) ==
    IF parts = <<>>
    THEN {[db |-> d, reads |-> 0, result |-> Error("Missing parts array")]}
    ELSE { [db |-> l.db, reads |-> l.reads,
            result |-> IF l.raised THEN Error("Failed to load benchmarks")
                       ELSE BalanceLoaded(l.db, parts, benchmark_type)] :
           l \in EnsureLoaded(d, f, benchmarks_dir) }

-----------------------------------------------------------------------------
(* get_top_performers *)

\* items[:limit]
Slice(items, limit) ==
    IF limit >= 0 THEN SubSeq(items, 1, IF limit < Len(items) THEN limit ELSE Len(items))
    ELSE SubSeq(items, 1, Len(items) + limit)

\* a or b
Or(a, b) == IF Truthy(a) THEN a ELSE b

\* the catalog a category and a benchmark type select (for a category that is cpu or gpu)
SourceData(d, category, benchmark_type) ==
    IF Lower(category) = S_cpu
    THEN IF Lower(benchmark_type) = S_software THEN d.cpu_software ELSE d.cpu_gaming
    ELSE d.gpu

SourceTitle(d, category, benchmark_type) ==
    IF Lower(category) = S_cpu
    THEN IF Lower(benchmark_type) = S_software
         THEN OrTitle(d.cpu_software_title, "Processor Software Benchmark")
         ELSE OrTitle(d.cpu_gaming_title, "Processor Gaming Benchmark")
    ELSE OrTitle(d.gpu_title, "GPU Benchmark Rankings")

TopParts(sorted_items, is_cpu) ==
    [i \in DOMAIN sorted_items |->
        IF is_cpu
        THEN [name |-> sorted_items[i].key,
              score |-> Get(sorted_items[i].value, "rating", None),
              relative_performance |->
                  Or(Get(sorted_items[i].value, "relative_performance", None),
                     Get(sorted_items[i].value, "percentage", None)),
              rank |-> Get(sorted_items[i].value, "rank", None)]
        ELSE [name |-> sorted_items[i].key,
              score |-> Get(sorted_items[i].value, "benchmark_score", None),
              relative_performance |-> Get(sorted_items[i].value, "relative_performance", None),
              rank |-> Get(sorted_items[i].value, "rank", None)]]

\* get_top_performers once the database is loaded (lines 440-489)
TopLoaded(d, category, benchmark_type, limit) ==
    IF Lower(category) \notin {S_cpu, S_gpu} THEN Error("Unknown category")
    ELSE [status |-> "success", category |-> category, benchmark_type |-> benchmark_type,
          benchmark_title |-> SourceTitle(d, category, benchmark_type),
          top_performers |->
              TopParts(Slice(RankedDescending(SourceData(d, category, benchmark_type)), limit),
                       Lower(category) = S_cpu)]

\* A slip of get_top_performers: "title = ... or default" written back to the database.
get_top_performers_storing_title(d, f, category, benchmark_type, limit, benchmarks_dir) ==
    { [db |-> IF l.raised \/ Lower(category) \notin {S_cpu, S_gpu} THEN l.db
              ELSE IF Lower(category) = S_gpu
              THEN [l.db EXCEPT !.gpu_title = SourceTitle(l.db, category, benchmark_type)]
              ELSE IF Lower(benchmark_type) = S_software
              THEN [l.db EXCEPT !.cpu_software_title =
                                    SourceTitle(l.db, category, benchmark_type)]
              ELSE [l.db EXCEPT !.cpu_gaming_title =
                                    SourceTitle(l.db, category, benchmark_type)],
       reads |-> l.reads,
       result |-> IF l.raised THEN Error("Failed to load benchmarks")
                  ELSE TopLoaded(l.db, category, benchmark_type, limit)] :
      l \in EnsureLoaded(d, f, benchmarks_dir) }

get_top_performers(d, f, category, benchmark_type, limit, benchmarks_dir) ==
    { [db |-> l.db, reads |-> l.reads,
       result |-> IF l.raised THEN Error("Failed to load benchmarks")
                  ELSE TopLoaded(l.db, category, benchmark_type, limit)] :
      l \in EnsureLoaded(d, f, benchmarks_dir) }

-----------------------------------------------------------------------------
(* select_best_part *)

RECURSIVE PriceMap(_, _)
\* the loop that keeps, for each stripped name, the lowest numeric price
PriceMap(price_map, prices) ==
    IF prices = <<>> THEN price_map
    ELSE LET name == Strip(Head(prices).part)
             price == Head(prices).price
             existing == DictGet(price_map, name, None)
         IN  PriceMap(IF name = <<>> \/ ~IsNumber(price) THEN price_map
                      ELSE IF existing = None \/ price.v < existing.v
                           THEN DictSet(price_map, name, price)
                           ELSE price_map,
                      Tail(prices))

InRange(price, min_price, max_price) ==
    /\ ~(min_price # None /\ price.v < min_price.v)
    /\ ~(max_price # None /\ price.v > max_price.v)

\* A slip of the loop: the upper bound is never compared.
InRangeItemsNoMax(ranked, price_map, min_price, max_price) ==
    {i \in DOMAIN ranked :
        /\ HasKey(price_map, ranked[i].key)
        /\ InRange(DictGet(price_map, ranked[i].key, None), min_price, None)}

\* the ranked items the "for name, data in ranked" loop would return at
InRangeItems(ranked, price_map, min_price, max_price) ==
    {i \in DOMAIN ranked :
        /\ HasKey(price_map, ranked[i].key)
        /\ InRange(DictGet(price_map, ranked[i].key, None), min_price, max_price)}

\* lines 520-574 on the price map, the ranked list and its in-range items
SelectFirst(d, category, benchmark_type, prices, price_map, ranked, hits) ==
    IF prices = <<>> THEN Error("Missing prices list from PriceTracking results")
    ELSE IF price_map = <<>> THEN Error("No valid prices provided")
    ELSE IF Lower(category) \notin {S_cpu, S_gpu} THEN Error("Unknown category")
    ELSE IF hits = {} THEN Error("No parts found within the given price range")
    ELSE [status |-> "success", part |-> ranked[Min(hits)].key,
          price |-> DictGet(price_map, ranked[Min(hits)].key, None),
          benchmark_title |-> SourceTitle(d, category, benchmark_type),
          benchmark_rank |-> Get(ranked[Min(hits)].value, "rank", None),
          category |-> category, benchmark_type |-> benchmark_type]

SelectRanked(d, category, benchmark_type, min_price, max_price, prices, price_map, ranked) ==
    SelectFirst(d, category, benchmark_type, prices, price_map, ranked,
                InRangeItems(ranked, price_map, min_price, max_price))

\* select_best_part once the database is loaded (lines 520-574)
SelectLoaded(d, category, benchmark_type, min_price, max_price, prices) ==
    SelectRanked(d, category, benchmark_type, min_price, max_price, prices,
                 PriceMap(<<>>, prices),
                 RankedDescending(SourceData(d, category, benchmark_type)))

select_best_part(d, f, category, benchmark_type, min_price, max_price, prices, benchmarks_dir) ==
    { [db |-> l.db, reads |-> l.reads,
       result |-> IF l.raised THEN Error("Failed to load benchmarks")
                  ELSE SelectLoaded(l.db, category, benchmark_type, min_price, max_price,
                                    prices)] :
      l \in EnsureLoaded(d, f, benchmarks_dir) }

-----------------------------------------------------------------------------
(* Results *)

Idle == [op |-> "idle"]

\* the part names callers ask for
S_yzen == <<"y","z","e","n">>

S_Ryzen7Joined == <<"R","y","z","e","n","7">>

S_7Ryzen == <<"7"," ","R","y","z","e","n">>

S_Zen9 == <<"Z","e","n"," ","9">>

S_Titan == <<"T","i","t","a","n">>

S_Dashes == <<"-","-","-">>

S_IntelCoreI5 == <<"I","n","t","e","l"," ","C","o","r","e"," ","i","5">>

S_CPU == <<"C","P","U">>

S_ram == <<"r","a","m">>

Queries ==
    { S_Ryzen7, S_AmdRyzen7, S_CoreI5, S_IntelCoreI5, S_Athlon, S_Xeon, S_Rtx3, S_GeforceGtx2,
      S_yzen, S_Ryzen7Joined, S_7Ryzen, S_Zen9, S_Titan, S_Dashes }

\* the brand prefixes callers put before a name
Brands == { <<"A","M","D">>, <<"I","n","t","e","l">>, <<"G","e","F","o","r","c","e">>,
            <<"R","a","d","e","o","n">> }

\* the names of the data files' entries, as the catalogs store them
StoredNames == { S_Ryzen7, S_AmdRyzen7, S_CoreI5, S_Athlon, S_Xeon, S_Rtx3, S_GeforceGtx2 }

\* "P N" for a brand prefix P and a stored name N
BrandQueries == { brand \o <<" ">> \o name : brand \in Brands, name \in StoredNames }

\* the categories callers pass; lookup_benchmark also takes "" (detect it from the name)
Categories == { S_cpu, S_gpu, S_ram }

LookupCategories == Categories \cup { <<>>, S_CPU }

\* the price observations below name processors only
SelectCategories == { S_cpu, S_ram }

BenchmarkTypes == { S_gaming, S_software }

S_Ryzen7Padded == <<" ","R","y","z","e","n"," ","7">>

\* a price that is not a number
NotNum == [t |-> "str", text |-> <<"n","/","a">>]

SeqsUpTo(S, n) == UNION {[1..k -> S] : k \in 0..n}

\* the {part, price} entries handed to compute_balance
Entries ==
    ({S_Ryzen7} \X {Num(1), Num(2)})
    \cup ({S_CoreI5} \X {Num(1)})
    \cup ({S_Ryzen7} \X {Num(0), Num(-1), None, NotNum})
    \cup ({<<>>} \X {Num(1), Num(0)})
    \cup ({S_Athlon, S_Zen9, S_Xeon} \X {Num(1)})

PartsLists == SeqsUpTo({[part |-> e[1], price |-> e[2]] : e \in Entries}, MaxParts)

\* the price observations handed to select_best_part
Observations ==
    { <<S_Ryzen7, Num(1)>>, <<S_Ryzen7, Num(3)>>, <<S_Ryzen7Padded, Num(2)>>,
      <<S_CoreI5, Num(2)>>, <<S_CoreI5, NotNum>>, <<S_Athlon, Num(2)>> }

PricesLists == SeqsUpTo({[part |-> o[1], price |-> o[2]] : o \in Observations}, MaxPrices)

PriceBounds == {None, Num(2)}

Init ==
    /\ fs \in DataLayouts
    /\ db = NewDb
    /\ ret = Idle
    /\ reads = 0
    /\ calls = <<>>

\* _benchmark_db.load_benchmarks(benchmarks_dir) called directly
Load(hint) ==
    /\ ret = Idle
    /\ \E out \in load_benchmarks(db, fs, hint) :
          /\ db' = out.db
          /\ reads' = out.reads
          /\ ret' = [op |-> "load", benchmarks_dir |-> hint, raised |-> out.raised]
    /\ UNCHANGED <<fs, calls>>

\* a lookup_* method of the loaded database called directly
DbLookup(catalog, name) ==
    /\ ret = Idle
    /\ db._loaded
    /\ ret' = [op |-> "db_lookup", catalog |-> catalog, name |-> name,
               result |-> CASE catalog = "cpu_gaming" -> lookup_cpu_gaming(db, name)
                            [] catalog = "cpu_software" -> lookup_cpu_software(db, name)
                            [] catalog = "gpu" -> lookup_gpu(db, name)]
    /\ reads' = 0
    /\ UNCHANGED <<fs, db, calls>>

LookupBenchmark(part, category, benchmark_type, hint) ==
    /\ ret = Idle
    /\ \E out \in lookup_benchmark(db, fs, part, category, benchmark_type, hint) :
          /\ db' = out.db
          /\ reads' = out.reads
          /\ ret' = [op |-> "lookup", part |-> part, category |-> category,
                     benchmark_type |-> benchmark_type, result |-> out.result]
    /\ UNCHANGED <<fs, calls>>

ComputeBalance(parts, benchmark_type, hint) ==
    /\ ret = Idle
    /\ \E out \in compute_balance(db, fs, parts, benchmark_type, hint) :
          /\ db' = out.db
          /\ reads' = out.reads
          /\ ret' = [op |-> "rank", parts |-> parts, benchmark_type |-> benchmark_type,
                     result |-> out.result]
    /\ UNCHANGED <<fs, calls>>

GetTopPerformers(category, benchmark_type, limit, hint) ==
    /\ ret = Idle
    /\ \E out \in get_top_performers(db, fs, category, benchmark_type, limit, hint) :
          /\ db' = out.db
          /\ reads' = out.reads
          /\ ret' = [op |-> "top", category |-> category, benchmark_type |-> benchmark_type,
                     limit |-> limit, result |-> out.result]
    /\ UNCHANGED <<fs, calls>>

SelectBestPart(category, benchmark_type, min_price, max_price, prices, hint) ==
    /\ ret = Idle
    /\ \E out \in select_best_part(db, fs, category, benchmark_type, min_price, max_price,
                                   prices, hint) :
          /\ db' = out.db
          /\ reads' = out.reads
          /\ ret' = [op |-> "select", category |-> category, benchmark_type |-> benchmark_type,
                     min_price |-> min_price, max_price |-> max_price, prices |-> prices,
                     result |-> out.result]
    /\ UNCHANGED <<fs, calls>>

\* The caller takes the result; nothing of a call is kept but the database.
Return ==
    /\ ret # Idle
    /\ ret' = Idle
    /\ reads' = 0
    /\ UNCHANGED <<fs, db, calls>>

\* tool_config's benchmark_source is read only while the database is not loaded
HintsNow == IF db._loaded THEN {DirCwdSam} ELSE Hints

\* the benchmark_source of the tool_config the tools are deployed with
ConfiguredHints == {DirHint}

Next ==
    \/ \E hint \in ConfiguredHints : Load(hint)
    \/ \E catalog \in {"cpu_gaming", "cpu_software", "gpu"}, name \in Queries \cup BrandQueries :
          DbLookup(catalog, name)
    \/ \E part \in Queries, category \in LookupCategories, benchmark_type \in BenchmarkTypes,
          hint \in ConfiguredHints :
          LookupBenchmark(part, category, benchmark_type, hint)
    \/ \E parts \in PartsLists, benchmark_type \in BenchmarkTypes, hint \in ConfiguredHints :
          ComputeBalance(parts, benchmark_type, hint)
    \/ \E category \in Categories, benchmark_type \in BenchmarkTypes, limit \in 0..MaxLimit,
          hint \in ConfiguredHints :
          GetTopPerformers(category, benchmark_type, limit, hint)
    \/ \E category \in SelectCategories, benchmark_type \in BenchmarkTypes,
          min_price \in PriceBounds, max_price \in PriceBounds, prices \in PricesLists,
          hint \in ConfiguredHints :
          SelectBestPart(category, benchmark_type, min_price, max_price, prices, hint)
    \/ Return

Spec == Init /\ [][Next]_vars

\* The loader on every layout of the data directories.
InitLoad ==
    /\ fs \in Layouts
    /\ db = NewDb
    /\ ret = Idle
    /\ reads = 0
    /\ calls = <<>>

NextLoad ==
    \/ \E hint \in Hints : Load(hint)
    \/ \E part \in {S_Ryzen7, S_Rtx3}, category \in {<<>>}, benchmark_type \in BenchmarkTypes,
          hint \in HintsNow :
          LookupBenchmark(part, category, benchmark_type, hint)
    \/ Return

SpecLoad == InitLoad /\ [][NextLoad]_vars

-----------------------------------------------------------------------------
(* _normalize_name on its own: the names are the concatenations of at most *)
(* MaxFrags fragments, and the function is applied to a name and then to   *)
(* what it returned.                                                       *)

Fragments ==
    { <<"a","m","d">>, <<"I","n","t","e","l">>, <<" ">>, <<"-">>, <<"x">>, <<"7">>,
      <<"É">>, <<"\n">> }

NameInputs == {Flatten(frags) : frags \in SeqsUpTo(Fragments, MaxFrags)}

InitNormalize ==
    /\ fs = EmptyFs
    /\ db = NewDb
    /\ reads = 0
    /\ \E name \in NameInputs : ret = [op |-> "name", value |-> name]
    /\ calls = <<>>

\* value = self._normalize_name(value)
NormalizeName ==
    /\ ret.op \in {"name", "normalized"}
    /\ ret' = [op |-> "normalized", name |-> ret.value, value |-> _normalize_name(ret.value)]
    /\ UNCHANGED <<fs, db, reads, calls>>

NextNormalize == NormalizeName

SpecNormalize == InitNormalize /\ [][NextNormalize]_vars

-----------------------------------------------------------------------------
(* The category detection as a function of its own: a part name is drawn   *)
(* from the concatenations of at most MaxFrags fragments, among them parts *)
(* of keywords, and lookup_benchmark's detection is applied to it with no  *)
(* category given.                                                         *)

DetectFragments ==
    { <<"R","y","z","e","n">>, <<"C","o","r","e">>, <<" ">>, <<"i">>, <<"R","T">>, <<"X">>,
      <<"T","i">>, <<"r">>, <<"x">>, <<"A","r","c">> }

PartInputs == {Flatten(frags) : frags \in SeqsUpTo(DetectFragments, MaxFrags)}

InitDetect ==
    /\ fs = EmptyFs
    /\ db = NewDb
    /\ reads = 0
    /\ \E part \in PartInputs : ret = [op |-> "part", value |-> part]
    /\ calls = <<>>

\* "if not category: part_lower = part.lower(); ..." with category = ""
DetectPart ==
    /\ ret.op = "part"
    /\ ret' = [op |-> "detected", part |-> ret.value,
               category |-> DetectCategory(Lower(ret.value), <<>>)]
    /\ UNCHANGED <<fs, db, reads, calls>>

NextDetect == DetectPart

SpecDetect == InitDetect /\ [][NextDetect]_vars

-----------------------------------------------------------------------------
(* load_benchmarks called by requests that run side by side.  The method   *)
(* holds no lock, so a call may be overtaken between any two of its        *)
(* statements: each action below is one statement of one call, on the one  *)
(* shared BenchmarkDatabase.  A call keeps its position pc, its argument   *)
(* benchmarks_dir, its local base_dir, the file block and the loop index   *)
(* it is at, and the number of files it has opened.                        *)

Callers == {1, 2}

IdleCall ==
    [pc |-> "idle", benchmarks_dir |-> NoDir, base_dir |-> NoDir, file |-> 0, i |-> 0,
     reads |-> 0]

\* the three "if path.exists():" blocks of load_benchmarks: the file read, the catalog
\* filled, the title stored and the entries looped over
DataFile(k) ==
    CASE k = 1 -> [file |-> "cpu1", catalog |-> "cpu_gaming",
                   title |-> Get(Cpu1Json, "benchmark_title", NoTitle),
                   entries |-> Get(Cpu1Json, "cpus", <<>>)]
      [] k = 2 -> [file |-> "cpu2", catalog |-> "cpu_software",
                   title |-> Get(Cpu2Json, "benchmark_name", NoTitle),
                   entries |-> Get(Cpu2Json, "processors", <<>>)]
      [] k = 3 -> [file |-> "gpu", catalog |-> "gpu",
                   title |-> OrTitle(Get(GpuJson, "benchmark_title", NoTitle),
                                     "GPU Benchmark Rankings"),
                   entries |-> Get(GpuJson, "GPU_Benchmark_Rankings", <<>>)]

\* the six assignments of _build_indexes, in their order
IndexFields ==
    << [name |-> "cpu_gaming_index", catalog |-> "cpu_gaming", compact |-> FALSE],
       [name |-> "cpu_software_index", catalog |-> "cpu_software", compact |-> FALSE],
       [name |-> "gpu_index", catalog |-> "gpu", compact |-> FALSE],
       [name |-> "cpu_gaming_compact_index", catalog |-> "cpu_gaming", compact |-> TRUE],
       [name |-> "cpu_software_compact_index", catalog |-> "cpu_software", compact |-> TRUE],
       [name |-> "gpu_compact_index", catalog |-> "gpu", compact |-> TRUE] >>

\* where a call goes after the block of its file: the next block, or line 147
NextFile(call) ==
    IF call.file < 3 THEN [call EXCEPT !.pc = "open", !.file = @ + 1, !.i = 0]
    ELSE [call EXCEPT !.pc = "mark", !.file = 0, !.i = 0]

\* the "for ... in data.get(...)" loop at index i: its body, or past the loop
AtEntry(call, i) ==
    IF i <= Len(DataFile(call.file).entries) THEN [call EXCEPT !.pc = "entry", !.i = i]
    ELSE NextFile(call)

\* the data layouts of the tools and one whose directory only the search finds
InitConcurrent ==
    /\ fs \in DataLayouts \cup {OneDir(DirDeep, Files("ok", "missing", "missing"))}
    /\ db = NewDb
    /\ ret = Idle
    /\ reads = 0
    /\ calls = [c \in Callers |-> IdleCall]

\* a request calls _benchmark_db.load_benchmarks(benchmarks_dir)
CallLoad(c, benchmarks_dir) ==
    /\ calls[c].pc = "idle"
    /\ calls' = [calls EXCEPT ![c] = [IdleCall EXCEPT !.pc = "guard",
                                                     !.benchmarks_dir = benchmarks_dir]]
    /\ UNCHANGED <<fs, db, ret, reads>>

\* if self._loaded: return
Guard(c) ==
    /\ calls[c].pc = "guard"
    /\ calls' = [calls EXCEPT ![c].pc = IF db._loaded THEN "returned" ELSE "resolve"]
    /\ UNCHANGED <<fs, db, ret, reads>>

\* base_dir = self._resolve_benchmark_dir(benchmarks_dir), statement by statement.
\* Line 48: self.last_benchmark_paths = [str(p) for p in candidates]
Resolve(c) ==
    /\ calls[c].pc = "resolve"
    /\ db' = [db EXCEPT !.last_benchmark_paths =
                           <<calls[c].benchmarks_dir, DirPkg, DirCwdSam, DirCwd>>]
    /\ calls' = [calls EXCEPT ![c].pc = "candidates"]
    /\ UNCHANGED <<fs, ret, reads>>

\* Lines 49-52: the first candidate that holds a data file is stored in
\* last_benchmark_dir and returned; with none the search of lines 54-59 follows.
TestCandidates(c) ==
    /\ calls[c].pc = "candidates"
    /\ LET candidates == <<calls[c].benchmarks_dir, DirPkg, DirCwdSam, DirCwd>>
           hits == {i \in DOMAIN candidates : _has_any_benchmarks(fs, candidates[i])}
       IN  IF hits = {}
           THEN /\ calls' = [calls EXCEPT ![c].pc = "search"]
                /\ db' = db
           ELSE /\ db' = [db EXCEPT !.last_benchmark_dir = candidates[Min(hits)]]
                /\ calls' = [calls EXCEPT ![c] = [@ EXCEPT !.pc = "open",
                                                           !.base_dir = candidates[Min(hits)],
                                                           !.file = 1]]
    /\ UNCHANGED <<fs, ret, reads>>

\* Lines 54-59 with _find_benchmark_dir: the directory found below the first search
\* root that has one is appended to the shared last_benchmark_paths (line 84).
Search(c) ==
    /\ calls[c].pc = "search"
    /\ LET in_cwd == _find_benchmark_dir(fs, RootCwd)
           found == IF in_cwd # {} THEN in_cwd ELSE _find_benchmark_dir(fs, RootPkg)
       IN  IF found = {}
           THEN /\ calls' = [calls EXCEPT ![c] = [@ EXCEPT !.pc = "found", !.base_dir = NoDir]]
                /\ db' = db
           ELSE \E d \in found :
                   /\ db' = [db EXCEPT !.last_benchmark_paths = Append(@, d)]
                   /\ calls' = [calls EXCEPT ![c] = [@ EXCEPT !.pc = "found", !.base_dir = d]]
    /\ UNCHANGED <<fs, ret, reads>>

\* Line 61, self.last_benchmark_dir = str(found), or line 64, = None; then lines 94-98
SetDir(c) ==
    /\ calls[c].pc = "found"
    /\ db' = [db EXCEPT !.last_benchmark_dir = calls[c].base_dir]
    /\ calls' = [calls EXCEPT ![c] =
                    IF @.base_dir = NoDir THEN [@ EXCEPT !.pc = "not_found"]
                    ELSE [@ EXCEPT !.pc = "open", !.file = 1]]
    /\ UNCHANGED <<fs, ret, reads>>

\* if path.exists(): with path.open(...) as f: data = json.load(f)
OpenFile(c) ==
    /\ calls[c].pc = "open"
    /\ calls' = [calls EXCEPT ![c] =
                    CASE fs[@.base_dir][DataFile(@.file).file] = "missing" -> NextFile(@)
                      [] fs[@.base_dir][DataFile(@.file).file] = "bad" ->
                             [@ EXCEPT !.pc = "raised", !.reads = @ + 1]
                      [] fs[@.base_dir][DataFile(@.file).file] = "ok" ->
                             [@ EXCEPT !.pc = "title", !.reads = @ + 1]]
    /\ UNCHANGED <<fs, db, ret, reads>>

\* self.cpu_gaming_title = data.get("benchmark_title"), and its like for the other files
SetTitle(c) ==
    /\ calls[c].pc = "title"
    /\ db' = [db EXCEPT ![DataFile(calls[c].file).catalog \o "_title"] =
                           DataFile(calls[c].file).title]
    /\ calls' = [calls EXCEPT ![c] = AtEntry(@, 1)]
    /\ UNCHANGED <<fs, ret, reads>>

\* name = (cpu.get("name") or "").strip(); if name: self.cpu_gaming[name] = {...}
StoreEntry(c) ==
    /\ calls[c].pc = "entry"
    /\ LET block == DataFile(calls[c].file)
           entry == block.entries[calls[c].i]
           name == Strip(Get(entry, "name", <<>>))
       IN  db' = IF name = <<>> THEN db
                 ELSE [db EXCEPT ![block.catalog] =
                                    DictSet(@, name, Record(block.catalog, entry))]
    /\ calls' = [calls EXCEPT ![c] = AtEntry(@, @.i + 1)]
    /\ UNCHANGED <<fs, ret, reads>>

\* self._loaded = True, at line 96 (no directory found) and at line 147
MarkLoaded(c) ==
    /\ calls[c].pc \in {"not_found", "mark"}
    /\ db' = [db EXCEPT !._loaded = TRUE]
    /\ calls' = [calls EXCEPT ![c] =
                    IF @.pc = "not_found" THEN [@ EXCEPT !.pc = "returned"]
                    ELSE [@ EXCEPT !.pc = "index", !.i = 1]]
    /\ UNCHANGED <<fs, ret, reads>>

\* one assignment of _build_indexes
BuildOneIndex(c) ==
    /\ calls[c].pc = "index"
    /\ db' = [db EXCEPT ![IndexFields[calls[c].i].name] =
                           BuildIndex(Keys(db[IndexFields[calls[c].i].catalog]),
                                      IndexFields[calls[c].i].compact)]
    /\ calls' = [calls EXCEPT ![c] =
                    IF @.i < Len(IndexFields) THEN [@ EXCEPT !.i = @ + 1]
                    ELSE [@ EXCEPT !.pc = "returned", !.i = 0]]
    /\ UNCHANGED <<fs, ret, reads>>

\* the caller goes on after the call returned or raised
LeaveLoad(c) ==
    /\ calls[c].pc \in {"returned", "raised"}
    /\ calls' = [calls EXCEPT ![c] = IdleCall]
    /\ UNCHANGED <<fs, db, ret, reads>>

\* Two requests load side by side with the configured directory, while a third looks a
\* name up in the database once it is marked loaded.
NextConcurrent ==
    \/ \E c \in Callers, benchmarks_dir \in ConfiguredHints : CallLoad(c, benchmarks_dir)
    \/ \E c \in Callers : Guard(c)
    \/ \E c \in Callers : Resolve(c)
    \/ \E c \in Callers : TestCandidates(c)
    \/ \E c \in Callers : Search(c)
    \/ \E c \in Callers : SetDir(c)
    \/ \E c \in Callers : OpenFile(c)
    \/ \E c \in Callers : SetTitle(c)
    \/ \E c \in Callers : StoreEntry(c)
    \/ \E c \in Callers : MarkLoaded(c)
    \/ \E c \in Callers : BuildOneIndex(c)
    \/ \E c \in Callers : LeaveLoad(c)
    \/ DbLookup("cpu_gaming", S_AmdRyzen7)
    \/ Return

SpecConcurrent == InitConcurrent /\ [][NextConcurrent]_vars

-----------------------------------------------------------------------------
(* The claims *)

\* C1: once a load call has completed (the database is marked loaded, with data or
\* with no directory found), a later load call, whatever its hint, leaves the three
\* catalogs, their titles and the six indexes as they are and opens no file.
C1_LoadIdempotent ==
    [][(db._loaded /\ ret.op = "idle" /\ ret'.op = "load")
         => /\ ~ret'.raised
            /\ reads' = 0
            /\ db' = db]_vars

\* a load with another hint than the one the data was loaded with, which read nothing
C1_Witness ==
    /\ ret.op = "load"
    /\ db._loaded
    /\ db.gpu # <<>>
    /\ reads = 0
    /\ ret.benchmarks_dir # db.last_benchmark_paths[1]

\* C7: when load aborts on an unreadable or malformed file, the loader is left marked
\* as attempted (so that later calls do not search and parse again).
C7_AbortMarksAttempted ==
    (ret.op = "load" /\ ret.raised) => db._loaded

\* the result of a compute_balance call that evaluated its entries
Ranking == ret.op = "rank" /\ ret.result.status = "success"

\* the scored entries of the output, which come first
Scored == SubSeq(ret.result.evaluated, 1, ret.result.valid_count)

\* the (part, price) pairs of a list of entries or of results
Pairs(entries) == [i \in DOMAIN entries |-> <<entries[i].part, entries[i].price>>]

\* the input entries that were scored with the balance score b, in input order
InputOfScore(b) ==
    SelectSeq(Pairs(ret.parts),
              LAMBDA p : \E k \in DOMAIN Scored :
                            /\ <<Scored[k].part, Scored[k].price>> = p
                            /\ Scored[k].balance_score = b)

\* C2: in the output of compute_balance the scored entries come by balance_score
\* descending, entries of equal balance_score in their input order, and their rank
\* values are 1..N in that order.
C2_RankingSorted ==
    Ranking =>
        /\ ret.result.valid_count <= Len(ret.result.evaluated)
        /\ \A i \in DOMAIN Scored :
              /\ Scored[i].balance_score # None
              /\ Scored[i].rank = i
        /\ \A i, j \in DOMAIN Scored :
              i < j => ~KeyLess(Scored[i].balance_score, Scored[j].balance_score)
        /\ \A k \in DOMAIN Scored :
              Pairs(SelectSeq(Scored, LAMBDA r : r.balance_score = Scored[k].balance_score))
                  = InputOfScore(Scored[k].balance_score)

\* two different parts of equal balance score, both ranked
C2_Witness ==
    /\ Ranking
    /\ ret.result.valid_count = 2
    /\ Scored[1].balance_score = Scored[2].balance_score
    /\ Scored[1].part # Scored[2].part
    /\ Pairs(Scored) = Pairs(ret.parts)

\* C8: compute_balance carries every entry of its input through: the evaluated
\* output has one result per input entry, and valid_count + invalid_count is the
\* number of input entries.
C8_EveryEntryCarried ==
    Ranking =>
        /\ Len(ret.result.evaluated) = Len(ret.parts)
        /\ ret.result.valid_count + ret.result.invalid_count = Len(ret.parts)

\* a price that is 0, negative, missing or not a number
InvalidPrice(price) == ~IsNumber(price) \/ price.v <= 0

\* C9: every input entry of compute_balance whose price is 0, negative, missing or
\* not a number is returned without a rank, with balance_score null and the
\* invalid-price error: the output holds as many such results as the input holds
\* such entries, and none of them is among the ranked.
C9_InvalidPriceTagged ==
    Ranking =>
        /\ \A i \in DOMAIN ret.result.evaluated :
              InvalidPrice(ret.result.evaluated[i].price)
                  => /\ "rank" \notin DOMAIN ret.result.evaluated[i]
                     /\ ret.result.evaluated[i].balance_score = None
                     /\ ret.result.evaluated[i].error = "Invalid price"
        /\ Len(SelectSeq(ret.result.evaluated, LAMBDA r : InvalidPrice(r.price)))
              = Len(SelectSeq(ret.parts, LAMBDA e : InvalidPrice(e.price)))

\* the items of the catalog a select_best_part call ranks: those of the catalog its
\* category and benchmark type select that have a rank; none if the benchmark data
\* did not load or the category is unknown
Target ==
    IF db._loaded /\ Lower(ret.category) \in {S_cpu, S_gpu}
    THEN {item \in Range(SourceData(db, ret.category, ret.benchmark_type)) :
             IsNumber(Get(item.value, "rank", None))}
    ELSE {}

\* the numeric prices observed for exactly this name
ExactPrices(name) ==
    {ret.prices[i].price.v :
        i \in {k \in DOMAIN ret.prices :
                  ret.prices[k].part = name /\ IsNumber(ret.prices[k].price)}}

\* the numeric prices observed for this name, blanks around the observed name aside
TrimmedPrices(name) ==
    {ret.prices[i].price.v :
        i \in {k \in DOMAIN ret.prices :
                  Strip(ret.prices[k].part) = name /\ IsNumber(ret.prices[k].price)}}

Lowest(S) == CHOOSE m \in S : \A x \in S : m <= x

\* v within [min_price, max_price] of the call, an absent bound being no bound
Within(v) ==
    /\ ret.min_price = None \/ v >= ret.min_price.v
    /\ ret.max_price = None \/ v <= ret.max_price.v

\* C3: when select_best_part succeeds, no record of the target catalog with a rank
\* (1 = best) and an observed price within the bounds has a better (numerically
\* lower) rank than the part returned.
C3_BestRankReturned ==
    (ret.op = "select" /\ ret.result.status = "success") =>
        \A item \in Target :
            (/\ item.value.rank.v >= 1
             /\ TrimmedPrices(item.key) # {}
             /\ Within(Lowest(TrimmedPrices(item.key))))
                => ~(item.value.rank.v < ret.result.benchmark_rank.v)

\* C4, as claimed: select_best_part succeeds if and only if some ranked record of the
\* target catalog has its exact name among the price observations with its lowest
\* observed price within the bounds, and a returned price is within the bounds.
C4_SuccessIffExactName ==
    ret.op = "select" =>
        /\ ret.result.status \in {"success", "error"}
        /\ ret.result.status = "success"
              <=> \E item \in Target :
                     /\ ExactPrices(item.key) # {}
                     /\ Within(Lowest(ExactPrices(item.key)))
        /\ ret.result.status = "success" => Within(ret.result.price.v)

\* C4, amended: select_best_part succeeds if and only if the benchmark data loaded and
\* some ranked record of the target catalog has a name equal to the blank-trimmed name
\* of a price observation, the lowest numeric price observed for that trimmed name
\* being within the bounds; the part returned is such a record with that price.
C4_SuccessIffTrimmedName ==
    ret.op = "select" =>
        /\ ret.result.status \in {"success", "error"}
        /\ ret.result.status = "success"
              <=> \E item \in Target :
                     /\ TrimmedPrices(item.key) # {}
                     /\ Within(Lowest(TrimmedPrices(item.key)))
        /\ ret.result.status = "success"
              => /\ Within(ret.result.price.v)
                 /\ \E item \in Target :
                       /\ item.key = ret.result.part
                       /\ TrimmedPrices(item.key) # {}
                       /\ ret.result.price.v = Lowest(TrimmedPrices(item.key))

\* a part returned at a price observed under a padded name only, below a price cap
\* that another observation exceeds
C4_Witness ==
    /\ ret.op = "select"
    /\ ret.result.status = "success"
    /\ ret.result.price.v \notin ExactPrices(ret.result.part)
    /\ ret.max_price # None
    /\ \E i \in DOMAIN ret.prices :
          IsNumber(ret.prices[i].price) /\ ~Within(ret.prices[i].price.v)

\* C5: a lookup in a catalog with the exact stored name of one of its records returns
\* that record.
C5_ExactNameFindsRecord ==
    (ret.op = "db_lookup" /\ HasKey(db[ret.catalog], ret.name))
        => ret.result = DictGet(db[ret.catalog], ret.name, None)

\* C6: normalizing a normalized name changes nothing.
C6_NormalizeIdempotent ==
    ret.op = "normalized" => _normalize_name(ret.value) = ret.value

\* the query's compact form is not empty and lies within the compact name of a record
CompactSubstring ==
    /\ _compact_name(ret.name) # <<>>
    /\ \E item \in Range(db[ret.catalog]) :
          Contains(_compact_name(item.key), _compact_name(ret.name))

\* C10: a lookup whose query's compact form is a non-empty substring of the compact
\* name of a record of the catalog returns a record of that catalog, never not-found.
C10_CompactSubstringFound ==
    (ret.op = "db_lookup" /\ CompactSubstring)
        => /\ ret.result # None
           /\ \E item \in Range(db[ret.catalog]) : item.value = ret.result

\* a query that is no name, no compact name and no token of a record, found as a
\* substring
C10_Witness ==
    /\ ret.op = "db_lookup"
    /\ CompactSubstring
    /\ ret.result # None
    /\ ~HasKey(db[ret.catalog \o "_index"], _normalize_name(ret.name))
    /\ ~HasKey(db[ret.catalog \o "_compact_index"], _compact_name(ret.name))
    /\ \A item \in Range(db[ret.catalog]) :
          ~_tokens_match(_normalize_name(ret.name), _normalize_name(item.key))

\* the query of a lookup is "P N" for a brand prefix P and the name N of a record of
\* the catalog searched
BrandedName(name) ==
    /\ HasKey(db[ret.catalog], name)
    /\ \E brand \in Brands : ret.name = brand \o <<" ">> \o name

\* C11: a lookup of "P N", P a brand prefix and N the stored name of a record of the
\* catalog, hits the normalized-name index (step 1) on the key of N and returns the
\* record the index gives for N, which is what a lookup of N returns.
C11_BrandPrefixExactMatch ==
    ret.op = "db_lookup" =>
        \A name \in StoredNames :
            BrandedName(name) =>
                /\ _normalize_name(ret.name) = _normalize_name(name)
                /\ HasKey(db[ret.catalog \o "_index"], _normalize_name(ret.name))
                /\ ret.result # None
                /\ ret.result =
                      DictGet(db[ret.catalog],
                              DictGet(db[ret.catalog \o "_index"], _normalize_name(name), <<>>),
                              None)

\* a prefix put before a stored name that carries a brand itself
C11_Witness ==
    /\ ret.op = "db_lookup"
    /\ ret.result # None
    /\ \E name \in StoredNames :
          /\ BrandedName(name)
          /\ _normalize_name(name) # Lower(name)

\* C12: compute_balance called with an empty parts list returns the top-level error
\* for the missing parts, loaded or not, and never a success with nothing evaluated.
C12_EmptyPartsRefused ==
    (ret.op = "rank" /\ ret.parts = <<>>)
        => /\ ret.result = Error("Missing parts array")
           /\ reads = 0

\* the empty list refused before the benchmark data was ever loaded
C12_Witness ==
    /\ ret.op = "rank"
    /\ ret.parts = <<>>
    /\ ret.result.status = "error"
    /\ ~db._loaded
    /\ db.last_benchmark_paths = <<>>

\* the load found no directory: the database is marked loaded and holds nothing
NotFoundLoaded ==
    /\ db._loaded
    /\ db.last_benchmark_dir = NoDir
    /\ db.cpu_gaming = <<>> /\ db.cpu_software = <<>> /\ db.gpu = <<>>

\* a call of a tool with something to work on: a part, parts, or price observations
ToolCall ==
    \/ ret.op \in {"lookup", "top"}
    \/ ret.op = "rank" /\ ret.parts # <<>>
    \/ ret.op = "select" /\ ret.prices # <<>>

\* C13: when no benchmark directory was found, every tool called afterwards returns an
\* error result that carries the list of the paths tried, never a success.
C13_NotFoundReported ==
    (ToolCall /\ NotFoundLoaded)
        => /\ ret.result.status = "error"
           /\ "tried" \in DOMAIN ret.result
           /\ ret.result.tried = db.last_benchmark_paths

\* the shared store: the three catalogs, their titles and the six name indexes
Store(d) ==
    << d.cpu_gaming, d.cpu_software, d.gpu,
       d.cpu_gaming_title, d.cpu_software_title, d.gpu_title,
       d.cpu_gaming_index, d.cpu_software_index, d.gpu_index,
       d.cpu_gaming_compact_index, d.cpu_software_compact_index, d.gpu_compact_index >>

\* C14: once the database is marked loaded, a lookup, a ranking, a top list or a
\* selection leaves the catalogs, their titles and the name indexes as they are.
C14_ReadOnlyAfterLoad ==
    [][(db._loaded /\ ret.op = "idle"
          /\ ret'.op \in {"db_lookup", "lookup", "rank", "top", "select"})
         => Store(db') = Store(db)]_vars

\* a ranking that scored a part without opening a file: the data was loaded before
C14_Witness ==
    /\ ret.op = "rank"
    /\ db._loaded
    /\ reads = 0
    /\ ret.result.status = "success"
    /\ ret.result.valid_count > 0

\* the records of the target catalog that have a rank and whose price, the lowest
\* numeric price observed for their name, is within the bounds of the call
InRangeRanked ==
    {item \in Target : /\ TrimmedPrices(item.key) # {}
                       /\ Within(Lowest(TrimmedPrices(item.key)))}

\* C15: when select_best_part succeeds, the part returned is a ranked record of the
\* target catalog with a price within the bounds, and no ranked record with a price
\* within the bounds has a numerically larger rank than the one returned.
C15_LargestRankReturned ==
    (ret.op = "select" /\ ret.result.status = "success") =>
        /\ \E item \in InRangeRanked :
              /\ item.key = ret.result.part
              /\ item.value.rank = ret.result.benchmark_rank
        /\ \A item \in InRangeRanked :
              item.value.rank.v <= ret.result.benchmark_rank.v

\* a part returned although a record of numerically lower rank was in range as well
C15_Witness ==
    /\ ret.op = "select"
    /\ ret.result.status = "success"
    /\ \E item \in InRangeRanked : item.value.rank.v < ret.result.benchmark_rank.v

\* C16: select_best_part never returns a part whose rank in the catalog is missing,
\* zero or negative: the rank of a returned part is an integer of at least 1.
C16_ReturnedRankPositive ==
    (ret.op = "select" /\ ret.result.status = "success") =>
        /\ IsNumber(ret.result.benchmark_rank)
        /\ ret.result.benchmark_rank.v >= 1

\* the record the name lookup of compute_balance resolves a part name to: the one
\* found in the catalog that the category detected from the name and the benchmark
\* type of the call select; None when there is none
Resolved(part) ==
    FindBenchmark(db, part, DetectCategory(Lower(part), <<>>),
                  Lower(ret.benchmark_type) = S_software)

\* a positive price for a name that resolves to a record of positive integer rank
Scorable(entry) ==
    /\ IsNumber(entry.price) /\ entry.price.v > 0
    /\ Resolved(entry.part) # None
    /\ IsNumber(Get(Resolved(entry.part), "rank", None))
    /\ Get(Resolved(entry.part), "rank", None).v > 0

\* C17: in the output of compute_balance every named input entry has a result; the
\* result of an entry with a positive price whose name resolves to a record of
\* positive integer rank has the balance_score rank / price, and the result of any
\* other entry has a null balance_score and an error, and comes after the ranked ones.
C17_BalanceIffRankAndPrice ==
    Ranking =>
        \A i \in DOMAIN ret.parts :
            ret.parts[i].part # <<>> =>
                \E k \in DOMAIN ret.result.evaluated :
                    LET r == ret.result.evaluated[k]
                    IN  /\ r.part = ret.parts[i].part
                        /\ r.price = ret.parts[i].price
                        /\ IF Scorable(ret.parts[i])
                           THEN r.balance_score =
                                    Quotient(Resolved(r.part).rank.v, r.price.v)
                           ELSE /\ r.balance_score = None
                                /\ r.error # NoError
                                /\ k > ret.result.valid_count

\* neither the normalized-name index nor the compact-name index of the catalog
\* searched has the query's key
NoIndexHit ==
    /\ ~HasKey(db[ret.catalog \o "_index"], _normalize_name(ret.name))
    /\ ~HasKey(db[ret.catalog \o "_compact_index"], _compact_name(ret.name))

\* the positions, in the catalog's order, of the records the query matches by token
\* subset (step 3) or by compact substring (step 4)
Matching ==
    {i \in DOMAIN db[ret.catalog] :
        \/ _tokens_match(_normalize_name(ret.name), _normalize_name(db[ret.catalog][i].key))
        \/ /\ _compact_name(ret.name) # <<>>
           /\ Contains(_compact_name(db[ret.catalog][i].key), _compact_name(ret.name))}

\* C18: a lookup that hits neither index returns the record at the first position of
\* the catalog that matches by token subset or by compact substring, no matching
\* record standing before it, and returns not-found only if no record matches.
C18_FirstMatchReturned ==
    (ret.op = "db_lookup" /\ NoIndexHit) =>
        /\ ret.result = None <=> Matching = {}
        /\ ret.result # None =>
              \E i \in Matching :
                  /\ ret.result = db[ret.catalog][i].value
                  /\ \A j \in Matching : i <= j

\* two records of different data match the query, and the earlier one is returned
C18_Witness ==
    /\ ret.op = "db_lookup"
    /\ NoIndexHit
    /\ \E i, j \in Matching :
          /\ i < j
          /\ db[ret.catalog][i].value # db[ret.catalog][j].value
          /\ ret.result = db[ret.catalog][i].value

\* the name, letter case aside, contains one of the keywords
HasKeyword(name, keywords) == \E keyword \in keywords : Contains(Lower(name), keyword)

CpuWords ==
    { <<"r","y","z","e","n">>, <<"c","o","r","e"," ","i">>, <<"x","e","o","n">>,
      <<"t","h","r","e","a","d","r","i","p","p","e","r">>, <<"a","t","h","l","o","n">> }

\* the GPU keywords of the claim
GpuWordsClaimed ==
    { <<"r","t","x">>, <<"g","t","x">>, <<"r","a","d","e","o","n">>,
      <<"g","e","f","o","r","c","e">>, <<"a","r","c">>, <<"r","x">> }

\* C19, as claimed: with no category given, a name containing "ryzen", "core i",
\* "xeon", "threadripper" or "athlon" is detected as cpu; otherwise a name containing
\* "rtx", "gtx", "radeon", "geforce", "arc" or "rx" is detected as gpu; a name
\* containing none of these is detected as cpu.
C19_DetectedAsClaimed ==
    ret.op = "detected" =>
        /\ HasKeyword(ret.part, CpuWords) => ret.category = S_cpu
        /\ (~HasKeyword(ret.part, CpuWords) /\ HasKeyword(ret.part, GpuWordsClaimed))
              => ret.category = S_gpu
        /\ (~HasKeyword(ret.part, CpuWords) /\ ~HasKeyword(ret.part, GpuWordsClaimed))
              => ret.category = S_cpu

\* C19, amended: with no category given, a name containing "ryzen", "core i", "xeon",
\* "threadripper" or "athlon" is detected as cpu; otherwise a name containing "rtx",
\* "gtx", "radeon", "geforce", "arc", "ti" or "rx" is detected as gpu; a name
\* containing none of these is detected as cpu.  Letter case is ignored.
C19_DetectedWithTi ==
    ret.op = "detected" =>
        /\ HasKeyword(ret.part, CpuWords) => ret.category = S_cpu
        /\ (/\ ~HasKeyword(ret.part, CpuWords)
            /\ HasKeyword(ret.part, GpuWordsClaimed \cup {<<"t","i">>}))
              => ret.category = S_gpu
        /\ (/\ ~HasKeyword(ret.part, CpuWords)
            /\ ~HasKeyword(ret.part, GpuWordsClaimed \cup {<<"t","i">>}))
              => ret.category = S_cpu

\* a name whose only keyword is "ti", detected as gpu
C19_Witness ==
    /\ ret.op = "detected"
    /\ HasKeyword(ret.part, {<<"t","i">>})
    /\ ~HasKeyword(ret.part, CpuWords \cup GpuWordsClaimed)
    /\ ret.category = S_gpu

\* the directories below a search root, within the depth bound, that hold at least
\* one of cpu1.json, cpu2.json and gpu.json
SearchableDirs ==
    {d \in Dirs : /\ DirRoot(d) # ""
                  /\ DirParts(d) <= max_depth
                  /\ \E name \in {"cpu1", "cpu2", "gpu"} : fs[d][name] # "missing"}

\* a resolution has run, and neither its hint nor a fixed fallback directory held a
\* data file
NoCandidateHolds ==
    /\ db.last_benchmark_paths # <<>>
    /\ \A i \in 1..4 :
          \/ db.last_benchmark_paths[i] \notin Dirs
          \/ fs[db.last_benchmark_paths[i]] = NoFiles

\* C20: when neither the hint nor a fixed fallback directory holds a data file and
\* some directory below a search root, within the depth bound, holds at least one of
\* the three data files, the search finds such a directory, be cpu2.json or gpu.json
\* the only file it holds.
C20_AnyDataFileFound ==
    (NoCandidateHolds /\ SearchableDirs # {}) => db.last_benchmark_dir \in SearchableDirs

\* the ranks of the records get_top_performers returned, in the order returned
TopRanks == [i \in DOMAIN ret.result.top_performers |-> ret.result.top_performers[i].rank.v]

\* the ranked records of the chosen catalog that were not returned
NotReturned ==
    {item \in Target : \A i \in DOMAIN ret.result.top_performers :
                          ret.result.top_performers[i].name # item.key}

\* C23: get_top_performers with a limit L >= 0 returns min(L, number of records with
\* an integer rank) records of the chosen catalog, listed best first (rank 1 = best),
\* and no ranked record that was not returned has a better (numerically lower) rank
\* than a returned one.
C23_TopAreBest ==
    (ret.op = "top" /\ ret.result.status = "success" /\ ret.limit >= 0) =>
        /\ Len(ret.result.top_performers)
              = IF ret.limit < Cardinality(Target) THEN ret.limit ELSE Cardinality(Target)
        /\ \A i \in DOMAIN TopRanks :
              \E item \in Target : /\ item.key = ret.result.top_performers[i].name
                                   /\ item.value.rank.v = TopRanks[i]
        /\ \A i, j \in DOMAIN TopRanks : i < j => TopRanks[i] <= TopRanks[j]
        /\ \A i \in DOMAIN TopRanks : \A item \in NotReturned :
              TopRanks[i] <= item.value.rank.v

\* the status, score, relative score and rank of a lookup_benchmark result
Outcome(result) ==
    <<result.status, Get(result, "score", None), Get(result, "relative_score", None),
      Get(result, "benchmark_rank", None)>>

\* C24: a lookup_benchmark call with an explicit category returns the status, score,
\* relative score and rank that the call with the lower-cased category returns on the
\* same database, whatever the letter case of the category given.
C24_CategoryCaseIgnored ==
    (ret.op = "lookup" /\ ret.category # <<>> /\ db._loaded) =>
        Outcome(ret.result)
            = Outcome(LookupLoaded(db, ret.part, Lower(ret.category), ret.benchmark_type))

\* the names of the three catalogs; their indexes are the fields <name>_index and
\* <name>_compact_index of the database
CatalogNames == {"cpu_gaming", "cpu_software", "gpu"}

\* the two indexes of a catalog have a key for each of its names and name its records only
IndexesCover(catalog) ==
    /\ \A name \in Range(Keys(db[catalog])) :
          /\ HasKey(db[catalog \o "_index"], _normalize_name(name))
          /\ HasKey(db[catalog \o "_compact_index"], _compact_name(name))
    /\ \A item \in Range(db[catalog \o "_index"]) \cup Range(db[catalog \o "_compact_index"]) :
          HasKey(db[catalog], item.value)

\* C21: in every state, those a request sees while a load is running included, a
\* database that is marked loaded has, for each catalog, a normalized and a compact
\* index with a key for every name of the catalog and with names of the catalog only.
C21_LoadedMeansIndexed ==
    db._loaded => \A catalog \in CatalogNames : IndexesCover(catalog)

\* what one load_benchmarks call alone leaves of a fresh database on these files
SingleLoad ==
    {LoadFrom(NewDb, fs, r).db :
        r \in UNION {_resolve_benchmark_dir(fs, hint) : hint \in ConfiguredHints}}

\* C22: whenever the two load calls have both finished, however their statements were
\* interleaved, the catalogs, titles and indexes are those one load alone produces
\* and the database is marked loaded.
C22_ConcurrentLoadsAsOne ==
    (\A c \in Callers : calls[c].pc \in {"returned", "raised"}) =>
        /\ db._loaded
        /\ \E d \in SingleLoad : Store(d) = Store(db)

====
